---- MODULE Spec2Model ----
(***************************************************************************)
(* Model of block_device/block_cache.py: Block and BlockCache, and of the   *)
(* range checks of block_device/file_device.py: FileDevice.                *)
(*                                                                         *)
(* Block objects live in a heap indexed by 1..NumObjs; the cache table     *)
(* maps block ids to heap objects, and the two queues hold block ids.      *)
(* live is the set of Block objects that exist: those in the table and    *)
(* those removed from it that a caller still keeps and may pass to         *)
(* put_block or drop_block; drops counts the drop_block calls that         *)
(* removed a block; phase tells whether the callers use the cache freely   *)
(* or have settled into the write-back loop (get_dirty_block, clear_dirty, *)
(* put_block) that drains dirty_queue.  dev is a FileDevice with the host   *)
(* file behind it: whether it is open, the block count taken at open, the  *)
(* file's size in bytes and the position of the file object.               *)
(* Every public method of BlockCache is an operator from the state it is   *)
(* called in to the state it leaves and the value it returns, and one      *)
(* action that applies it.  A failed `assert` ends the call with the       *)
(* result Raised and keeps whatever the method had already changed, as     *)
(* the Python object does when the exception propagates to the caller.     *)
(***************************************************************************)
EXTENDS Integers, Sequences, FiniteSets, TLC

VARIABLES cache, lru_queue, dirty_queue, blocks, live, drops, phase, dev

vars == <<cache, lru_queue, dirty_queue, blocks, live, drops, phase, dev>>

(* ------------------------------ bounds -------------------------------- *)
\* capacity of the cache under study (constructor argument blk_limit)
BlkLimit == 2
\* block ids range over 0..MaxBlkId
MaxBlkId == 2
\* cap on a block's reference count (ref_inc has no upper bound)
MaxRef == 2
\* cap on the number of drop_block calls that remove a block
MaxDrops == 1
\* cap on the number of Blocks removed from the table that callers keep
MaxStale == 1
\* number of Block objects that can exist at once: a full table and the
\* removed Blocks the callers keep
NumObjs == BlkLimit + MaxStale
\* longest queue: every block of a full table idle, and the ids drop_block
\* left behind
MaxQueueLen == BlkLimit + MaxDrops
\* largest host file a FileDevice starts on, in blocks
MaxDevBlocks == 6
\* cap on the size writes may grow the host file to, in blocks
MaxFileBlocks == 9

BlkIds == 0..MaxBlkId
Objs == 1..NumObjs
\* "no object": Python's None where a Block is expected
NoObj == 0

(* ------------------------------ Block --------------------------------- *)
\* Block.__init__: ref_cnt 0, uptodate False, dirty False
Block(blk_cache, blk_id) ==
    [owner |-> blk_cache, id |-> blk_id, ref |-> 0,
     uptodate |-> FALSE, dirty |-> FALSE]

\* move_blk_cache that leaves the dirty flag as it was
move_blk_cache_keep_dirty(b, new_cache, new_blk_id) ==
    [b EXCEPT !.owner = new_cache, !.id = new_blk_id, !.ref = 0,
              !.uptodate = FALSE]

\* Block.move_blk_cache: new owner and id, ref_cnt 0, both flags cleared
move_blk_cache(b, new_cache, new_blk_id) ==
    [b EXCEPT !.owner = new_cache, !.id = new_blk_id, !.ref = 0,
              !.dirty = FALSE, !.uptodate = FALSE]

\* Block.ref_inc
ref_inc(b) == [b EXCEPT !.ref = b.ref + 1]

\* Block.ref_dec, after its assertion ref_cnt > 0 has passed
ref_dec(b) == [b EXCEPT !.ref = b.ref - 1]

\* the assertion written as ref_cnt >= 0
ref_dec_assert_nonneg(b) == b.ref >= 0

\* the assertion at the head of Block.ref_dec
ref_dec_assert(b) == b.ref > 0

\* Block.ref_dec as a whole: the failed assertion leaves the block as it was
ref_dec_checked(b) ==
    IF ref_dec_assert(b) THEN [raised |-> FALSE, b |-> ref_dec(b)]
    ELSE [raised |-> TRUE, b |-> b]

(* ------------------------- list primitives ---------------------------- *)
\* Python list.remove(x): delete the first occurrence of x
list_remove(q, x) ==
    IF \E i \in 1..Len(q) : q[i] = x
    THEN LET i == CHOOSE i \in 1..Len(q) :
                     q[i] = x /\ \A j \in 1..(i - 1) : q[j] # x
         IN SubSeq(q, 1, i - 1) \o SubSeq(q, i + 1, Len(q))
    ELSE q

\* x in list
list_contains(q, x) == \E i \in 1..Len(q) : q[i] = x

(* --------------- private methods of BlockCache: queues ---------------- *)
\* A call works on a record s = [cache, lru, dirty, blocks] that starts as
\* the current state and is threaded through the method's statements.
\* remove_lru that leaves the list as it is
remove_lru_skip(s, blk_id) == s

remove_lru(s, blk_id) == [s EXCEPT !.lru = list_remove(s.lru, blk_id)]

is_in_lru(s, blk_id) == list_contains(s.lru, blk_id)

push_lru(s, blk_id) == [s EXCEPT !.lru = Append(s.lru, blk_id)]

get_lru(s) == s.lru[1]

lru_count(s) == Len(s.lru)

is_lru_empty(s) == lru_count(s) = 0

\* push_dirty that appends to the LRU list instead
push_dirty_to_lru(s, blk_id) == [s EXCEPT !.lru = Append(s.lru, blk_id)]

push_dirty(s, blk_id) == [s EXCEPT !.dirty = Append(s.dirty, blk_id)]

get_dirty(s) == s.dirty[1]

remove_dirty(s, blk_id) == [s EXCEPT !.dirty = list_remove(s.dirty, blk_id)]

is_in_dirty(s, blk_id) == list_contains(s.dirty, blk_id)

dirty_count(s) == Len(s.dirty)

is_dirty_empty(s) == dirty_count(s) = 0

(* --------------- private methods of BlockCache: table ----------------- *)
cache_count(s) == Cardinality(DOMAIN s.cache)

\* __add_block: refuses a foreign block and a used id
add_block_ok(s, o) ==
    /\ s.blocks[o].owner = "self"
    /\ s.blocks[o].id \notin DOMAIN s.cache

add_block(s, o) ==
    IF add_block_ok(s, o)
    THEN [s EXCEPT !.cache = [k \in DOMAIN s.cache \cup {s.blocks[o].id} |->
                                 IF k = s.blocks[o].id THEN o ELSE s.cache[k]]]
    ELSE s

\* __contains_block
contains_block(s, o) ==
    /\ s.blocks[o].owner = "self"
    /\ s.blocks[o].id \in DOMAIN s.cache

\* __get_block: the object under blk_id, or None; raises when the object's
\* own id differs from its key
get_block(s, blk_id) ==
    LET found == blk_id \in DOMAIN s.cache
        o == IF found THEN s.cache[blk_id] ELSE NoObj
    IN [block |-> o, raised |-> found /\ s.blocks[o].id # blk_id]

\* __pop_block that forgets to detach the block it removed
pop_block_no_detach(s, blk_id) ==
    LET found == blk_id \in DOMAIN s.cache
        o == IF found THEN s.cache[blk_id] ELSE NoObj
        raised == found /\ s.blocks[o].id # blk_id
        s1 == [s EXCEPT !.cache = [k \in DOMAIN s.cache \ {blk_id} |-> s.cache[k]]]
    IN [s |-> s1, block |-> o, raised |-> raised]

\* __pop_block that reads the entry and leaves it in the table
pop_block_keep(s, blk_id) ==
    LET found == blk_id \in DOMAIN s.cache
        o == IF found THEN s.cache[blk_id] ELSE NoObj
        raised == found /\ s.blocks[o].id # blk_id
        s2 == IF found /\ ~raised
              THEN [s EXCEPT !.blocks[o] = move_blk_cache(s.blocks[o], "None", blk_id)]
              ELSE s
    IN [s |-> s2, block |-> o, raised |-> raised]

\* __pop_block: dict.pop, then the id assertion, then move_blk_cache(None, id)
pop_block(s, blk_id) ==
    LET found == blk_id \in DOMAIN s.cache
        o == IF found THEN s.cache[blk_id] ELSE NoObj
        raised == found /\ s.blocks[o].id # blk_id
        s1 == [s EXCEPT !.cache = [k \in DOMAIN s.cache \ {blk_id} |-> s.cache[k]]]
        s2 == IF found /\ ~raised
              THEN [s1 EXCEPT !.blocks[o] = move_blk_cache(s1.blocks[o], "None", blk_id)]
              ELSE s1
    IN [s |-> s2, block |-> o, raised |-> raised]

(* --------------------------- return values ---------------------------- *)
RetNone == [kind |-> "None", blk |-> NoObj]
RetBlock(o) == [kind |-> "Block", blk |-> o]
RetBool(b) == [kind |-> IF b THEN "True" ELSE "False", blk |-> NoObj]
\* the call ended in a failed assert
Raised == [kind |-> "AssertionError", blk |-> NoObj]

\* the state a call starts from
Cur == [cache |-> cache, lru |-> lru_queue, dirty |-> dirty_queue, blocks |-> blocks]

(* ------------------- public methods of BlockCache --------------------- *)
\* Each method maps the state s it is called in to [s |-> state at the end
\* of the call, ret |-> returned value or Raised].

\* is_full that looks at the count only
is_full_count_only(s) == BlkLimit <= cache_count(s)

\* BlockCache.is_full
is_full(s) == BlkLimit <= cache_count(s) /\ is_lru_empty(s)

\* BlockCache.find_get_block
find_get_block(s, blk_id) ==
    LET g == get_block(s, blk_id)
        o == g.block
    IN IF g.raised THEN [s |-> s, ret |-> Raised]
       ELSE IF o = NoObj THEN [s |-> s, ret |-> RetNone]
       ELSE IF s.blocks[o].ref = 0
            THEN IF s.blocks[o].dirty
                 THEN IF ~is_in_dirty(s, blk_id) THEN [s |-> s, ret |-> Raised]
                      ELSE LET s1 == remove_dirty(s, blk_id)
                           IN [s |-> [s1 EXCEPT !.blocks[o] = ref_inc(s1.blocks[o])],
                               ret |-> RetBlock(o)]
                 ELSE IF ~is_in_lru(s, blk_id) THEN [s |-> s, ret |-> Raised]
                      ELSE LET s1 == remove_lru(s, blk_id)
                           IN [s |-> [s1 EXCEPT !.blocks[o] = ref_inc(s1.blocks[o])],
                               ret |-> RetBlock(o)]
            ELSE [s |-> [s EXCEPT !.blocks[o] = ref_inc(s.blocks[o])],
                  ret |-> RetBlock(o)]

\* BlockCache.get_dirty_block
get_dirty_block(s) ==
    IF is_dirty_empty(s) THEN [s |-> s, ret |-> RetNone]
    ELSE LET r == find_get_block(s, get_dirty(s))
         IN IF r.ret.kind = "Block" THEN r ELSE [s |-> r.s, ret |-> Raised]

\* BlockCache.get_lru_block
get_lru_block(s) ==
    IF is_lru_empty(s) THEN [s |-> s, ret |-> RetNone]
    ELSE LET r == find_get_block(s, get_lru(s))
         IN IF r.ret.kind = "Block" THEN r ELSE [s |-> r.s, ret |-> Raised]

\* BlockCache.drop_block
drop_block(s, o) ==
    IF ~contains_block(s, o) THEN [s |-> s, ret |-> RetBool(FALSE)]
    ELSE IF s.blocks[o].ref > 1 THEN [s |-> s, ret |-> RetBool(FALSE)]
    ELSE LET p == pop_block(s, s.blocks[o].id)
         IN IF p.raised \/ p.block # o THEN [s |-> p.s, ret |-> Raised]
            ELSE [s |-> p.s, ret |-> RetBool(TRUE)]

\* put_block that queues every idle block, whatever its uptodate flag
put_block_idle_always_queue(s, o) ==
    IF s.blocks[o].dirty
    THEN [s |-> push_dirty(s, s.blocks[o].id), ret |-> RetNone]
    ELSE [s |-> push_lru(s, s.blocks[o].id), ret |-> RetNone]

\* the part of put_block that runs once ref_dec has brought ref_cnt to 0
put_block_idle(s, o) ==
    IF s.blocks[o].uptodate
    THEN IF s.blocks[o].dirty
         THEN [s |-> push_dirty(s, s.blocks[o].id), ret |-> RetNone]
         ELSE [s |-> push_lru(s, s.blocks[o].id), ret |-> RetNone]
    ELSE LET p == pop_block(s, s.blocks[o].id)
         IN IF p.raised \/ p.block # o THEN [s |-> p.s, ret |-> Raised]
            ELSE [s |-> p.s, ret |-> RetNone]

\* put_block that runs the idle branch after every decrement
put_block_queue_every_release(s, o) ==
    IF ~contains_block(s, o) THEN [s |-> s, ret |-> Raised]
    ELSE IF ~ref_dec_assert(s.blocks[o]) THEN [s |-> s, ret |-> Raised]
    ELSE put_block_idle([s EXCEPT !.blocks[o] = ref_dec(s.blocks[o])], o)

\* put_block with its two assertions stripped
put_block_unasserted(s, o) ==
    LET s1 == [s EXCEPT !.blocks[o] = ref_dec(s.blocks[o])]
    IN IF s1.blocks[o].ref = 0 THEN put_block_idle(s1, o)
       ELSE [s |-> s1, ret |-> RetNone]

\* BlockCache.put_block
put_block(s, o) ==
    IF ~contains_block(s, o) THEN [s |-> s, ret |-> Raised]
    ELSE IF ~ref_dec_assert(s.blocks[o]) THEN [s |-> s, ret |-> Raised]
    ELSE LET s1 == [s EXCEPT !.blocks[o] = ref_dec(s.blocks[o])]
         IN IF s1.blocks[o].ref = 0 THEN put_block_idle(s1, o)
            ELSE [s |-> s1, ret |-> RetNone]

\* the limit test with > for >=
limit_reached_strict(s) == cache_count(s) > BlkLimit

\* the test at the head of alloc_block: the cache holds blk_limit blocks
limit_reached(s) == cache_count(s) >= BlkLimit

\* alloc_block at the limit that falls back on the dirty list when the LRU
\* list is empty
alloc_block_evict_any_idle(s, blk_id) ==
    IF is_lru_empty(s) /\ is_dirty_empty(s) THEN [s |-> s, ret |-> RetNone]
    ELSE LET popped_blk_id == IF is_lru_empty(s) THEN get_dirty(s) ELSE get_lru(s)
             s1 == IF is_lru_empty(s) THEN remove_dirty(s, popped_blk_id)
                   ELSE remove_lru(s, popped_blk_id)
         IN IF popped_blk_id = blk_id
            THEN LET g == get_block(s1, popped_blk_id)
                 IN IF g.raised \/ g.block = NoObj THEN [s |-> s1, ret |-> Raised]
                    ELSE [s |-> [s1 EXCEPT !.blocks[g.block] = ref_inc(s1.blocks[g.block])],
                          ret |-> RetBlock(g.block)]
            ELSE LET p == pop_block(s1, popped_blk_id)
                 IN IF p.raised \/ p.block = NoObj THEN [s |-> p.s, ret |-> Raised]
                    ELSE LET o == p.block
                             s2 == [p.s EXCEPT !.blocks[o] =
                                        move_blk_cache(p.s.blocks[o], "self", blk_id)]
                         IN IF ~add_block_ok(s2, o) THEN [s |-> s2, ret |-> Raised]
                            ELSE LET s3 == add_block(s2, o)
                                 IN [s |-> [s3 EXCEPT !.blocks[o] = ref_inc(s3.blocks[o])],
                                     ret |-> RetBlock(o)]

\* alloc_block at the limit: reuse the block at the head of the LRU list
alloc_block_evict(s, blk_id) ==
    IF is_lru_empty(s) THEN [s |-> s, ret |-> RetNone]
    ELSE LET popped_blk_id == get_lru(s)
             s1 == remove_lru(s, popped_blk_id)
         IN IF popped_blk_id = blk_id
            THEN LET g == get_block(s1, popped_blk_id)
                 IN IF g.raised \/ g.block = NoObj THEN [s |-> s1, ret |-> Raised]
                    ELSE [s |-> [s1 EXCEPT !.blocks[g.block] = ref_inc(s1.blocks[g.block])],
                          ret |-> RetBlock(g.block)]
            ELSE LET p == pop_block(s1, popped_blk_id)
                 IN IF p.raised \/ p.block = NoObj THEN [s |-> p.s, ret |-> Raised]
                    ELSE LET o == p.block
                             s2 == [p.s EXCEPT !.blocks[o] =
                                        move_blk_cache(p.s.blocks[o], "self", blk_id)]
                         IN IF ~add_block_ok(s2, o) THEN [s |-> s2, ret |-> Raised]
                            ELSE LET s3 == add_block(s2, o)
                                 IN [s |-> [s3 EXCEPT !.blocks[o] = ref_inc(s3.blocks[o])],
                                     ret |-> RetBlock(o)]

\* alloc_block below the limit that stores the new Block under blk_id
\* without looking for a block that already has this id
alloc_block_fresh_overwrite(s, blk_id, new) ==
    LET s1 == [s EXCEPT !.blocks[new] = ref_inc(Block("self", blk_id))]
    IN [s |-> [s1 EXCEPT !.cache = [k \in DOMAIN s.cache \cup {blk_id} |->
                                      IF k = blk_id THEN new ELSE s.cache[k]]],
        ret |-> RetBlock(new)]

\* alloc_block below the limit: construct a Block; new is the heap object
\* the constructor call yields.  A Block that __add_block refuses is
\* garbage when the call returns.
alloc_block_fresh(s, blk_id, new) ==
    IF get_block(s, blk_id).raised THEN [s |-> s, ret |-> Raised]
    ELSE IF get_block(s, blk_id).block # NoObj THEN [s |-> s, ret |-> RetNone]
    ELSE LET s1 == [s EXCEPT !.blocks[new] = ref_inc(Block("self", blk_id))]
         IN IF ~add_block_ok(s1, new) THEN [s |-> s, ret |-> RetNone]
            ELSE [s |-> add_block(s1, new), ret |-> RetBlock(new)]

\* BlockCache.alloc_block (blk_id is an int >= 0: it is drawn from BlkIds)
alloc_block(s, blk_id, new) ==
    IF limit_reached(s) THEN alloc_block_evict(s, blk_id)
    ELSE alloc_block_fresh(s, blk_id, new)

\* the cache right after BlockCache.__init__
InitState ==
    [cache |-> [k \in {} |-> NoObj], lru |-> <<>>, dirty |-> <<>>,
     blocks |-> [o \in Objs |-> Block("None", 0)]]

(* ----------------------------- the system ----------------------------- *)
Range(f) == {f[k] : k \in DOMAIN f}

Init ==
    /\ cache = [k \in {} |-> NoObj]
    /\ lru_queue = <<>>
    /\ dirty_queue = <<>>
    /\ blocks = [o \in Objs |-> Block("None", 0)]
    /\ live = {}
    /\ drops = 0
    /\ phase = "use"
    /\ dev = [fd |-> FALSE, blk_cnt |-> -1, size |-> 0, pos |-> 0]

\* the caps of the model: reference counts and queue lengths stay bounded
WithinBounds(s) ==
    /\ \A o \in Objs : s.blocks[o].ref <= MaxRef
    /\ Len(s.lru) <= MaxQueueLen
    /\ Len(s.dirty) <= MaxQueueLen

\* a call ends in r, with lv the Block objects that exist at its end.  The
\* callers keep as many of the Blocks that are no longer in the table as
\* MaxStale allows; the others are garbage and their heap slots are free.
Finish(r, lv) ==
    /\ WithinBounds(r.s)
    /\ \E keep \in SUBSET (lv \ Range(r.s.cache)) :
          /\ \/ keep = lv \ Range(r.s.cache)
             \/ Cardinality(keep) = MaxStale
          /\ Cardinality(keep) <= MaxStale
          /\ live' = Range(r.s.cache) \cup keep
          /\ blocks' = [o \in Objs |->
                          IF o \in Range(r.s.cache) \cup keep
                          THEN r.s.blocks[o] ELSE Block("None", 0)]
    /\ cache' = r.s.cache
    /\ lru_queue' = r.s.lru
    /\ dirty_queue' = r.s.dirty
    /\ phase' = phase
    /\ dev' = dev

\* the heap object a constructor call yields: the first free slot; when the
\* heap of the model is used up, the slot of a Block that is not in the
\* table, and NoObj when there is none
NewObjs ==
    IF Objs \ live # {}
    THEN {CHOOSE o \in Objs \ live : \A p \in Objs \ live : o <= p}
    ELSE IF live \ Range(cache) # {} THEN live \ Range(cache) ELSE {NoObj}

AllocBlock ==
    \E blk_id \in BlkIds, new \in NewObjs :
        LET r == alloc_block(Cur, blk_id, new)
        IN /\ limit_reached(Cur) \/ new # NoObj
           /\ Finish(r, IF r.ret = RetBlock(new) THEN live \cup {new} ELSE live)
           /\ UNCHANGED drops

FindGetBlock ==
    \E blk_id \in BlkIds :
        /\ Finish(find_get_block(Cur, blk_id), live)
        /\ UNCHANGED drops

PutBlock ==
    \E o \in live :
        /\ Finish(put_block(Cur, o), live)
        /\ UNCHANGED drops

GetLruBlock ==
    /\ Finish(get_lru_block(Cur), live)
    /\ UNCHANGED drops

GetDirtyBlock ==
    /\ Finish(get_dirty_block(Cur), live)
    /\ UNCHANGED drops

DropBlock ==
    \E o \in live :
        LET r == drop_block(Cur, o)
        IN /\ drops < MaxDrops
           /\ Finish(r, live)
           /\ drops' = IF r.ret = RetBool(FALSE) THEN drops ELSE drops + 1

\* a holder of a reference changes a flag of its block:
\* Block.set_dirty, clear_dirty, set_uptodate, clear_uptodate
SetFlag(o, b) ==
    /\ blocks[o].ref > 0
    /\ blocks' = [blocks EXCEPT ![o] = b]
    /\ UNCHANGED <<cache, lru_queue, dirty_queue, live, drops, phase, dev>>

SetDirty == \E o \in live : SetFlag(o, [blocks[o] EXCEPT !.dirty = TRUE])

ClearDirty == \E o \in live : SetFlag(o, [blocks[o] EXCEPT !.dirty = FALSE])

SetUptodate == \E o \in live : SetFlag(o, [blocks[o] EXCEPT !.uptodate = TRUE])

ClearUptodate == \E o \in live : SetFlag(o, [blocks[o] EXCEPT !.uptodate = FALSE])

Next ==
    \/ AllocBlock
    \/ FindGetBlock
    \/ PutBlock
    \/ GetLruBlock
    \/ GetDirtyBlock
    \/ DropBlock
    \/ SetDirty
    \/ ClearDirty
    \/ SetUptodate
    \/ ClearUptodate

Spec == Init /\ [][Next]_vars

\* the same cache when no caller uses drop_block
NextNoDrop ==
    \/ AllocBlock
    \/ FindGetBlock
    \/ PutBlock
    \/ GetLruBlock
    \/ GetDirtyBlock
    \/ SetDirty
    \/ ClearDirty
    \/ SetUptodate
    \/ ClearUptodate

SpecNoDrop == Init /\ [][NextNoDrop]_vars

(* -------------------------- write-back loop --------------------------- *)
\* the table is at capacity, all its blocks are idle and the id of one of
\* them is in dirty_queue: the state in which the callers turn to writing
\* dirty blocks back
WriteBackStart ==
    /\ cache_count(Cur) >= BlkLimit
    /\ \A o \in Range(cache) : blocks[o].ref = 0
    /\ \E k \in DOMAIN cache : is_in_dirty(Cur, k)

\* the callers stop everything but the write-back loop
StartWriteBack ==
    /\ phase = "use"
    /\ WriteBackStart
    /\ phase' = "write_back"
    /\ UNCHANGED <<cache, lru_queue, dirty_queue, blocks, live, drops, dev>>

\* first call of a write-back step: blk = get_dirty_block()
WriteBackGet ==
    /\ phase = "write_back"
    /\ \A o \in Range(cache) : blocks[o].ref = 0
    /\ ~is_dirty_empty(Cur)
    /\ Finish(get_dirty_block(Cur), live)
    /\ UNCHANGED drops

\* second call, after the block was written to the device: blk.clear_dirty()
WriteBackClear ==
    /\ phase = "write_back"
    /\ \E o \in Range(cache) :
           /\ blocks[o].dirty
           /\ SetFlag(o, [blocks[o] EXCEPT !.dirty = FALSE])

\* third call: put_block(blk)
WriteBackPut ==
    /\ phase = "write_back"
    /\ \E o \in Range(cache) :
           /\ blocks[o].ref > 0 /\ ~blocks[o].dirty
           /\ Finish(put_block(Cur, o), live)
    /\ UNCHANGED drops

\* one whole write-back step applied to state s: get_dirty_block,
\* clear_dirty on the block it returned, put_block of that block
write_back_step(s) ==
    LET g == get_dirty_block(s)
    IN IF g.ret.kind # "Block" THEN g
       ELSE put_block([g.s EXCEPT !.blocks[g.ret.blk].dirty = FALSE], g.ret.blk)

NextWriteBack ==
    \/ phase = "use" /\ Next
    \/ StartWriteBack
    \/ WriteBackGet
    \/ WriteBackClear
    \/ WriteBackPut

\* the callers keep going: a call of the loop that can be made is made
SpecWriteBack ==
    /\ Init
    /\ [][NextWriteBack]_vars
    /\ WF_vars(WriteBackGet)
    /\ WF_vars(WriteBackClear)
    /\ WF_vars(WriteBackPut)

(* ---------------------------- FileDevice ------------------------------ *)
\* bytes per block: the default of the constructor argument block_size
block_size == 4096
\* self.__blk_cnt while it is None
NoCnt == -1

\* a FileDevice after __init__, on a host file of sz bytes
FileDevice(sz) == [fd |-> FALSE, blk_cnt |-> NoCnt, size |-> sz, pos |-> 0]

\* __is_open
is_open(d) == d.fd

\* __get_blk_cnt: None for a file shorter than one block
get_blk_cnt(d) == IF d.size < block_size THEN NoCnt ELSE d.size \div block_size

\* __calc_block_bytes: -1 unless 0 <= blk_id < blk_cnt
calc_block_bytes(d, blk_id) ==
    IF d.blk_cnt = NoCnt THEN -1
    ELSE IF blk_id < 0 \/ d.blk_cnt <= blk_id THEN -1
    ELSE block_size * blk_id

\* open / __do_open
open(d) ==
    IF is_open(d) THEN [d |-> d, ret |-> TRUE]
    ELSE IF get_blk_cnt(d) = NoCnt THEN [d |-> d, ret |-> FALSE]
    ELSE [d |-> [d EXCEPT !.fd = TRUE, !.blk_cnt = get_blk_cnt(d), !.pos = 0],
          ret |-> TRUE]

\* close / __do_close: the block count is kept, the file object is gone
close(d) == [d |-> [d EXCEPT !.fd = FALSE, !.pos = 0], ret |-> TRUE]

\* what block_read returns: None, or the bytes read (n of them)
NoData == [kind |-> "None", n |-> 0]
Data(n) == [kind |-> "bytes", n |-> n]

\* the range test of block_read and block_write, as the code writes it
past_end(d, blk_id, blk_cnt) == blk_cnt + blk_cnt > d.blk_cnt

\* block_read: fd.seek(offset); fd.read(read_size) stops at the end of file
block_read(d, blk_id, blk_cnt) ==
    IF ~is_open(d) THEN [d |-> d, ret |-> NoData]
    ELSE LET offset_bytes == calc_block_bytes(d, blk_id)
             read_size == calc_block_bytes(d, blk_cnt)
         IN IF offset_bytes < 0 \/ read_size < 0 THEN [d |-> d, ret |-> NoData]
            ELSE IF past_end(d, blk_id, blk_cnt) THEN [d |-> d, ret |-> NoData]
            ELSE LET left == IF d.size > offset_bytes
                             THEN d.size - offset_bytes ELSE 0
                     n == IF read_size < left THEN read_size ELSE left
                 IN [d |-> [d EXCEPT !.pos = offset_bytes + n], ret |-> Data(n)]

\* block_write with a buffer of buf_len bytes: the buffer is cut or padded
\* with zeros to write_size bytes; writing past the end grows the file
block_write(d, blk_id, blk_cnt, buf_len) ==
    IF ~is_open(d) THEN [d |-> d, ret |-> -1]
    ELSE LET offset_bytes == calc_block_bytes(d, blk_id)
             write_size == calc_block_bytes(d, blk_cnt)
         IN IF offset_bytes < 0 \/ write_size < 0 THEN [d |-> d, ret |-> -1]
            ELSE IF past_end(d, blk_id, blk_cnt) THEN [d |-> d, ret |-> -1]
            ELSE LET end == offset_bytes + write_size
                     d1 == [d EXCEPT !.pos = end,
                                     !.size = IF end > d.size THEN end ELSE d.size]
                 IN IF write_size <= buf_len
                    THEN [d |-> d1, ret |-> write_size \div block_size]
                    ELSE [d |-> d1,
                          ret |-> (buf_len + (write_size - buf_len)) \div block_size]

\* block ids and block counts a caller may pass
DevReq == -1..(MaxDevBlocks + 1)
\* buffer lengths a caller may pass to block_write
BufLens == {0, block_size}

InitFileDevice ==
    /\ cache = InitState.cache
    /\ lru_queue = InitState.lru
    /\ dirty_queue = InitState.dirty
    /\ blocks = InitState.blocks
    /\ live = {}
    /\ drops = 0
    /\ phase = "use"
    /\ \E k \in 0..MaxDevBlocks, r \in {0, 1} : dev = FileDevice(k * block_size + r)

\* the variables of the block cache, which no FileDevice call touches
cache_vars == <<cache, lru_queue, dirty_queue, blocks, live, drops, phase>>

\* the device after a call, the host file within the cap of the model
DevFinish(r) ==
    /\ r.d.size <= MaxFileBlocks * block_size + 1
    /\ dev' = r.d

Open ==
    /\ DevFinish(open(dev))
    /\ UNCHANGED cache_vars

Close ==
    /\ DevFinish(close(dev))
    /\ UNCHANGED cache_vars

BlockRead ==
    /\ \E blk_id \in DevReq, blk_cnt \in DevReq :
           DevFinish(block_read(dev, blk_id, blk_cnt))
    /\ UNCHANGED cache_vars

BlockWrite ==
    /\ \E blk_id \in DevReq, blk_cnt \in DevReq, buf_len \in BufLens :
           DevFinish(block_write(dev, blk_id, blk_cnt, buf_len))
    /\ UNCHANGED cache_vars

NextFileDevice ==
    \/ Open
    \/ Close
    \/ BlockRead
    \/ BlockWrite

SpecFileDevice == InitFileDevice /\ [][NextFileDevice]_vars

TypeOK ==
    /\ DOMAIN cache \subseteq BlkIds
    /\ Range(cache) \subseteq live
    /\ live \subseteq Objs
    /\ \A o \in Objs : blocks[o].ref \in 0..MaxRef /\ blocks[o].id \in BlkIds
    /\ \A o \in Objs \ live : blocks[o] = Block("None", 0)
    /\ Cardinality(live \ Range(cache)) <= MaxStale
    /\ phase \in {"use", "write_back"}
    /\ dev.fd \in BOOLEAN
    /\ dev.blk_cnt \in -1..MaxFileBlocks
    /\ dev.size \in 0..(MaxFileBlocks * block_size + 1)
    /\ dev.pos \in 0..(MaxFileBlocks * block_size + 1)

(* ============================ properties ============================== *)
\* the ids held in a queue
Ids(q) == {q[i] : i \in 1..Len(q)}

\* the arguments alloc_block can be called with in the current state
AllocArgs ==
    {a \in [blk_id : BlkIds, new : NewObjs] : limit_reached(Cur) \/ a.new # NoObj}

\* the cache after alloc_block(0), ..., alloc_block(n - 1) on a new cache,
\* every returned block still held
RECURSIVE AllocRun(_)
AllocRun(n) ==
    IF n = 0 THEN InitState
    ELSE alloc_block(AllocRun(n - 1), n - 1, IF n <= NumObjs THEN n ELSE NoObj).s

\* C1: the number of blocks in the table never exceeds the capacity,
\* whatever sequence of alloc_block, find_get_block, put_block,
\* get_lru_block, get_dirty_block and drop_block calls led to the state.
C1_CountWithinLimit == Cardinality(DOMAIN cache) <= BlkLimit

\* the table is full again after a drop_block, with a block ready for reuse
C1_Witness ==
    /\ Cardinality(DOMAIN cache) = BlkLimit
    /\ drops > 0
    /\ lru_queue # <<>>

\* C2: without drop_block, every table block with ref_count 0 has its id in
\* exactly one of lru_queue and dirty_queue, and every table block with
\* ref_count > 0 has its id in neither.
C2_IdleIffQueued ==
    \A k \in DOMAIN cache :
        LET b == blocks[cache[k]]
        IN /\ b.ref = 0 => (k \in Ids(lru_queue)) # (k \in Ids(dirty_queue))
           /\ b.ref > 0 => k \notin Ids(lru_queue) /\ k \notin Ids(dirty_queue)

\* one idle block waits in the dirty queue while another block is held
C2_Witness ==
    /\ \E k \in DOMAIN cache : blocks[cache[k]].ref = 0 /\ k \in Ids(dirty_queue)
    /\ \E k \in DOMAIN cache : blocks[cache[k]].ref > 0

\* C3: every id in lru_queue or dirty_queue is a key of the table whose
\* block has ref_count 0, and no id is in both queues (drop_block included).
C3_QueuedIdsAreIdleTableBlocks ==
    /\ \A k \in Ids(lru_queue) \cup Ids(dirty_queue) :
          k \in DOMAIN cache /\ blocks[cache[k]].ref = 0
    /\ Ids(lru_queue) \cap Ids(dirty_queue) = {}

\* C4: neither queue holds an id twice (drop_block included).
C4_NoDuplicateIds ==
    /\ Cardinality(Ids(lru_queue)) = Len(lru_queue)
    /\ Cardinality(Ids(dirty_queue)) = Len(dirty_queue)

\* C5: at capacity with a non-empty lru_queue, alloc_block(id) for an id not
\* in the table evicts the idle clean block at the head of lru_queue: it
\* returns that same Block object, re-keyed to id, with ref_count 1, and
\* lru_queue loses exactly its head, so that successive allocations evict
\* in release order.
C5_EvictsLruHead ==
    \A a \in AllocArgs :
        (/\ Cardinality(DOMAIN cache) = BlkLimit
         /\ lru_queue # <<>>
         /\ a.blk_id \notin DOMAIN cache)
        => LET r == alloc_block(Cur, a.blk_id, a.new)
               head == Head(lru_queue)
           IN /\ head \in DOMAIN cache
              /\ blocks[cache[head]].ref = 0
              /\ ~blocks[cache[head]].dirty
              /\ r.ret = RetBlock(cache[head])
              /\ r.s.blocks[cache[head]].id = a.blk_id
              /\ r.s.blocks[cache[head]].ref = 1
              /\ a.blk_id \in DOMAIN r.s.cache
              /\ r.s.cache[a.blk_id] = cache[head]
              /\ head \notin DOMAIN r.s.cache
              /\ r.s.lru = Tail(lru_queue)

\* C6: at capacity with an empty lru_queue, alloc_block returns nothing for
\* every id and changes nothing, also when dirty_queue holds idle blocks.
C6_FullCacheRefusesAlloc ==
    \A a \in AllocArgs :
        (Cardinality(DOMAIN cache) = BlkLimit /\ lru_queue = <<>>)
        => LET r == alloc_block(Cur, a.blk_id, a.new)
           IN r.ret = RetNone /\ r.s = Cur

\* the table is full, no clean block is idle and a dirty one is
C6_Witness ==
    /\ Cardinality(DOMAIN cache) = BlkLimit
    /\ lru_queue = <<>>
    /\ dirty_queue # <<>>

\* C7: below capacity, alloc_block(id) for an id that is a key of the table
\* returns nothing and changes nothing; for an id not in the table it
\* inserts a new block under that id and count grows by exactly 1.
C7_AllocBelowLimit ==
    \A a \in AllocArgs :
        Cardinality(DOMAIN cache) < BlkLimit
        => LET r == alloc_block(Cur, a.blk_id, a.new)
           IN IF a.blk_id \in DOMAIN cache
              THEN r.ret = RetNone /\ r.s = Cur
              ELSE /\ r.ret = RetBlock(a.new)
                   /\ a.new \notin Range(cache)
                   /\ DOMAIN r.s.cache = DOMAIN cache \cup {a.blk_id}
                   /\ r.s.cache[a.blk_id] = a.new
                   /\ \A k \in DOMAIN cache : r.s.cache[k] = cache[k]
                   /\ Cardinality(DOMAIN r.s.cache) = Cardinality(DOMAIN cache) + 1
                   /\ r.s.lru = lru_queue /\ r.s.dirty = dirty_queue
                   /\ \A o \in Objs \ {a.new} : r.s.blocks[o] = blocks[o]

\* the table holds a held block and an idle one and has room for more
C7_Witness ==
    /\ Cardinality(DOMAIN cache) = BlkLimit - 1
    /\ \E k \in DOMAIN cache : blocks[cache[k]].ref > 0 /\ blocks[cache[k]].dirty

\* C8: alloc_block with an id >= 0 returns a block or nothing and never
\* ends in a failed assertion.
C8_AllocNeverRaises ==
    \A a \in AllocArgs : alloc_block(Cur, a.blk_id, a.new).ret # Raised

\* C9: put_block releasing the last reference of an uptodate block keeps it
\* in the table and appends its id at the tail of dirty_queue if it is
\* dirty, else at the tail of lru_queue; the other queue is unchanged.
C9_ReleaseQueuesUptodateBlock ==
    \A o \in live :
        (blocks[o].ref = 1 /\ blocks[o].uptodate)
        => LET r == put_block(Cur, o)
               k == blocks[o].id
           IN /\ r.ret = RetNone
              /\ r.s.cache = cache
              /\ k \in DOMAIN cache /\ cache[k] = o
              /\ r.s.blocks[o].ref = 0
              /\ IF blocks[o].dirty
                 THEN r.s.dirty = Append(dirty_queue, k) /\ r.s.lru = lru_queue
                 ELSE r.s.lru = Append(lru_queue, k) /\ r.s.dirty = dirty_queue

\* the last holder of an uptodate dirty block is about to release it while
\* a clean block waits in lru_queue
C9_Witness ==
    /\ lru_queue # <<>>
    /\ \E o \in live : blocks[o].ref = 1 /\ blocks[o].uptodate /\ blocks[o].dirty

C11_WriteBackRoundTrip ==
    \A o \in live :
        (blocks[o].ref = 1 /\ blocks[o].uptodate /\ blocks[o].dirty
         /\ dirty_queue = <<>>)
        => LET k == blocks[o].id
               r1 == put_block(Cur, o)
               r2 == get_dirty_block(r1.s)
               s3 == [r2.s EXCEPT !.blocks[o].dirty = FALSE]
               r4 == put_block(s3, o)
           IN /\ k \in Ids(r1.s.dirty) /\ k \notin Ids(r1.s.lru)
              /\ r2.ret = RetBlock(o)
              /\ r2.s.blocks[o].ref = 1
              /\ k \notin Ids(r2.s.dirty)
              /\ r4.ret = RetNone
              /\ k \in Ids(r4.s.lru) /\ k \notin Ids(r4.s.dirty)

\* C12: find_get_block(id) never changes the set of table keys. On a miss
\* it returns nothing and changes no state. On a hit it returns the block
\* keyed by id with ref_count one higher, and if that block was idle its id
\* is taken out of the one queue it occupied (dirty_queue if it is dirty,
\* else lru_queue); the other queue and all other blocks are unchanged.
C12_FindGetBlock ==
    \A blk_id \in BlkIds :
        LET r == find_get_block(Cur, blk_id)
        IN /\ r.s.cache = cache
           /\ IF blk_id \notin DOMAIN cache
              THEN r.ret = RetNone /\ r.s = Cur
              ELSE LET o == cache[blk_id]
                   IN /\ r.ret = RetBlock(o)
                      /\ r.s.blocks = [blocks EXCEPT ![o].ref = blocks[o].ref + 1]
                      /\ IF blocks[o].ref > 0
                         THEN r.s.lru = lru_queue /\ r.s.dirty = dirty_queue
                         ELSE IF blocks[o].dirty
                              THEN /\ blk_id \in Ids(dirty_queue)
                                   /\ r.s.dirty = SelectSeq(dirty_queue, LAMBDA y : y # blk_id)
                                   /\ r.s.lru = lru_queue
                              ELSE /\ blk_id \in Ids(lru_queue)
                                   /\ r.s.lru = SelectSeq(lru_queue, LAMBDA y : y # blk_id)
                                   /\ r.s.dirty = dirty_queue

\* C13: get_lru_block (get_dirty_block) returns nothing exactly when its
\* queue is empty; otherwise it returns the table block whose id was at the
\* head of the queue, that block then has ref_count 1, and the queue is one
\* entry shorter.
C13_GetFromQueue ==
    /\ LET r == get_lru_block(Cur)
       IN /\ (r.ret = RetNone) <=> (lru_queue = <<>>)
          /\ lru_queue # <<>>
             => /\ Head(lru_queue) \in DOMAIN cache
                /\ r.ret = RetBlock(cache[Head(lru_queue)])
                /\ r.s.blocks[cache[Head(lru_queue)]].ref = 1
                /\ Len(r.s.lru) = Len(lru_queue) - 1
    /\ LET r == get_dirty_block(Cur)
       IN /\ (r.ret = RetNone) <=> (dirty_queue = <<>>)
          /\ dirty_queue # <<>>
             => /\ Head(dirty_queue) \in DOMAIN cache
                /\ r.ret = RetBlock(cache[Head(dirty_queue)])
                /\ r.s.blocks[cache[Head(dirty_queue)]].ref = 1
                /\ Len(r.s.dirty) = Len(dirty_queue) - 1

\* C14: a block returned by alloc_block, get_lru_block or get_dirty_block
\* has ref_count exactly 1 when the call returns.
C14_ReturnedWithOneRef ==
    /\ \A a \in AllocArgs :
           LET r == alloc_block(Cur, a.blk_id, a.new)
           IN r.ret.kind = "Block" => r.s.blocks[r.ret.blk].ref = 1
    /\ LET r == get_lru_block(Cur)
       IN r.ret.kind = "Block" => r.s.blocks[r.ret.blk].ref = 1
    /\ LET r == get_dirty_block(Cur)
       IN r.ret.kind = "Block" => r.s.blocks[r.ret.blk].ref = 1

\* C15: whenever alloc_block at capacity returns a block, count is
\* unchanged, the evicted id (the head of lru_queue) is no longer a key of
\* the table unless it is the requested id, the requested id is a key
\* mapping to the returned Block object, that block's owner is this cache,
\* and the table holds the same Block objects as before: none is left
\* detached.
C15_EvictionRekeys ==
    \A a \in AllocArgs :
        LET r == alloc_block(Cur, a.blk_id, a.new)
        IN (Cardinality(DOMAIN cache) >= BlkLimit /\ r.ret.kind = "Block")
           => /\ Cardinality(DOMAIN r.s.cache) = Cardinality(DOMAIN cache)
              /\ Head(lru_queue) # a.blk_id
                 => Head(lru_queue) \notin DOMAIN r.s.cache
              /\ a.blk_id \in DOMAIN r.s.cache
              /\ r.s.cache[a.blk_id] = r.ret.blk
              /\ r.s.blocks[r.ret.blk].owner = "self"
              /\ r.s.blocks[r.ret.blk].id = a.blk_id
              /\ Range(r.s.cache) = Range(cache)

\* the table is at capacity and an alloc_block for an id other than the
\* head of lru_queue returns a block
C15_Witness ==
    /\ Cardinality(DOMAIN cache) = BlkLimit
    /\ \E a \in AllocArgs :
           /\ alloc_block(Cur, a.blk_id, a.new).ret.kind = "Block"
           /\ a.blk_id # Head(lru_queue)

\* C16: is_full is true exactly when count >= capacity and lru_queue is
\* empty: false while fewer than capacity blocks are in the table, true
\* once capacity blocks are in the table and none of them is idle and
\* clean, false right after an uptodate clean block is released, and true
\* after capacity + 1 alloc_block calls for distinct ids with no release.
C16_IsFull ==
    /\ is_full(Cur) <=> (Cardinality(DOMAIN cache) >= BlkLimit /\ lru_queue = <<>>)
    /\ Cardinality(DOMAIN cache) < BlkLimit => ~is_full(Cur)
    /\ (/\ Cardinality(DOMAIN cache) >= BlkLimit
        /\ \A k \in DOMAIN cache :
               ~(blocks[cache[k]].ref = 0 /\ ~blocks[cache[k]].dirty))
       => is_full(Cur)
    /\ \A o \in live :
           (blocks[o].ref = 1 /\ blocks[o].uptodate /\ ~blocks[o].dirty)
           => ~is_full(put_block(Cur, o).s)
    /\ is_full(AllocRun(BlkLimit + 1))

\* C17: ref_dec on a block whose ref_count is 0 fails its assertion and
\* leaves ref_count at 0, put_block on such a block fails the same way and
\* changes nothing, and ref_count >= 0 for every block in every reachable
\* state.
C17_RefCountNeverNegative ==
    /\ \A o \in Objs : blocks[o].ref >= 0
    /\ \A o \in live :
           blocks[o].ref = 0
           => /\ ref_dec_checked(blocks[o]).raised
              /\ ref_dec_checked(blocks[o]).b.ref = 0
              /\ put_block(Cur, o) = [s |-> Cur, ret |-> Raised]

\* an idle block sits in the table, where a put_block would reach ref_dec
C17_Witness ==
    \E o \in Range(cache) : blocks[o].ref = 0 /\ blocks[o].owner = "self"

\* C18: drop_block(block) returns false and changes no state when the
\* block's owner is not this cache, when its id is not a key of the table,
\* or when its ref_count > 1; otherwise it returns true, the block's id is
\* no longer a key of the table (count decreases by 1) and the block is
\* detached (owner cleared).
C18_DropBlock ==
    \A o \in live :
        LET r == drop_block(Cur, o)
            k == blocks[o].id
        IN IF \/ blocks[o].owner # "self"
              \/ k \notin DOMAIN cache
              \/ blocks[o].ref > 1
           THEN r = [s |-> Cur, ret |-> RetBool(FALSE)]
           ELSE /\ r.ret = RetBool(TRUE)
                /\ k \notin DOMAIN r.s.cache
                /\ Cardinality(DOMAIN r.s.cache) = Cardinality(DOMAIN cache) - 1
                /\ r.s.blocks[o].owner = "None"

\* C19: no cache operation other than drop_block removes from the table,
\* or clears the dirty flag of, a block whose dirty flag is set: after
\* alloc_block, find_get_block, put_block, get_lru_block or get_dirty_block
\* every dirty block of the table is still in the table under its id and
\* still dirty, whatever its uptodate flag.
C19_DirtyBlocksStay ==
    LET Kept(r) ==
            \A k \in DOMAIN cache :
                blocks[cache[k]].dirty
                => /\ k \in DOMAIN r.s.cache
                   /\ r.s.cache[k] = cache[k]
                   /\ r.s.blocks[cache[k]].dirty
    IN /\ \A a \in AllocArgs : Kept(alloc_block(Cur, a.blk_id, a.new))
       /\ \A blk_id \in BlkIds : Kept(find_get_block(Cur, blk_id))
       /\ \A o \in live : Kept(put_block(Cur, o))
       /\ Kept(get_lru_block(Cur))
       /\ Kept(get_dirty_block(Cur))

\* C20: put_block on a block that does not belong to this cache or is not
\* in the table fails with an assertion before changing anything: the
\* block's ref_count, the table and both queues are as before.
C20_PutBlockRejectsForeignBlock ==
    \A o \in live :
        (\/ blocks[o].owner # "self"
         \/ blocks[o].id \notin DOMAIN cache
         \/ o \notin Range(cache))
        => put_block(Cur, o) = [s |-> Cur, ret |-> Raised]

\* a caller still has a block that drop_block or a release took out of the
\* table, next to a block that is in the table
C20_Witness ==
    /\ cache # <<>>
    /\ \E o \in live \ Range(cache) : blocks[o].owner = "None"

\* C21: put_block on a block whose ref_count is greater than 1 only
\* decrements ref_count by 1: the table, both queues, the block's flags and
\* every other block are unchanged.
C21_SharedReleaseOnlyDecrements ==
    \A o \in live :
        blocks[o].ref > 1
        => put_block(Cur, o)
           = [s |-> [Cur EXCEPT !.blocks[o].ref = blocks[o].ref - 1],
              ret |-> RetNone]

\* an uptodate block with two holders while the table is at capacity
C21_Witness ==
    /\ Cardinality(DOMAIN cache) = BlkLimit
    /\ \E o \in live : blocks[o].ref > 1 /\ blocks[o].uptodate

\* C22: move_blk_cache(new_owner, new_id) with new_id >= 0 ends with owner
\* new_owner, id new_id, ref_count 0, dirty false and uptodate false,
\* whatever the block's ref_count and flags were before.
C22_MoveBlkCacheResets ==
    \A o \in live, new_owner \in {"self", "None", "other"}, new_id \in BlkIds :
        move_blk_cache(blocks[o], new_owner, new_id)
        = [owner |-> new_owner, id |-> new_id, ref |-> 0,
           uptodate |-> FALSE, dirty |-> FALSE]

\* a block that is referenced twice, dirty and uptodate: the case in which
\* move_blk_cache logs its warnings
C22_Witness ==
    \E o \in live : blocks[o].ref = MaxRef /\ blocks[o].dirty /\ blocks[o].uptodate

\* C23: every block whose id is in lru_queue has dirty false and uptodate
\* true, every block whose id is in dirty_queue has dirty true and uptodate
\* true, and find_get_block never fails its assertion that an idle block
\* is in the queue matching its dirty flag.
C23_QueuedBlockFlags ==
    /\ \A k \in Ids(lru_queue) \cap DOMAIN cache :
           ~blocks[cache[k]].dirty /\ blocks[cache[k]].uptodate
    /\ \A k \in Ids(dirty_queue) \cap DOMAIN cache :
           blocks[cache[k]].dirty /\ blocks[cache[k]].uptodate
    /\ \A blk_id \in BlkIds : find_get_block(Cur, blk_id).ret # Raised

\* C24: each table entry under key k is a block with id k owned by this
\* cache, no Block object is stored under two keys, and every block that
\* drop_block or put_block takes out of the table has its owner cleared.
C24_TableKeysAndOwners ==
    /\ \A k \in DOMAIN cache :
           /\ cache[k] \in Objs
           /\ blocks[cache[k]].id = k
           /\ blocks[cache[k]].owner = "self"
    /\ \A j, k \in DOMAIN cache : cache[j] = cache[k] => j = k
    /\ \A o \in live :
           /\ \A p \in Range(cache) \ Range(drop_block(Cur, o).s.cache) :
                  drop_block(Cur, o).s.blocks[p].owner = "None"
           /\ \A p \in Range(cache) \ Range(put_block(Cur, o).s.cache) :
                  put_block(Cur, o).s.blocks[p].owner = "None"

\* the table is at capacity, one block is idle and another one is held by
\* a single caller and not uptodate: its release takes it out of the table
C24_Witness ==
    /\ Cardinality(DOMAIN cache) = BlkLimit
    /\ \E o \in Range(cache) : blocks[o].ref = 0
    /\ \E o \in Range(cache) : blocks[o].ref = 1 /\ ~blocks[o].uptodate

\* C25: whenever alloc_block does not return a block (it returns nothing
\* or fails), the table, both queues and every block's id, owner,
\* ref_count and flags are the same as before the call.
C25_FailedAllocChangesNothing ==
    \A a \in AllocArgs :
        LET r == alloc_block(Cur, a.blk_id, a.new)
        IN r.ret.kind # "Block" => r.s = Cur

\* C26: alloc_block(id) for an id that is not a key of the table returns a
\* block if and only if is_full was false immediately before the call.
C26_AllocSucceedsIffNotFull ==
    \A a \in AllocArgs :
        a.blk_id \notin DOMAIN cache
        => (alloc_block(Cur, a.blk_id, a.new).ret.kind = "Block" <=> ~is_full(Cur))

\* the table is at capacity with an idle clean block queued and an idle
\* dirty one: not full, and a new id gets the clean block
C26_Witness ==
    /\ Cardinality(DOMAIN cache) = BlkLimit
    /\ lru_queue # <<>>
    /\ dirty_queue # <<>>

\* C27: every block returned by alloc_block has ref_count 1, dirty false
\* and uptodate false, whether it was freshly constructed, re-keyed from an
\* evicted block, or reused in place.
C27_AllocatedBlockIsBlank ==
    \A a \in AllocArgs :
        LET r == alloc_block(Cur, a.blk_id, a.new)
        IN r.ret.kind = "Block"
           => /\ r.s.blocks[r.ret.blk].ref = 1
              /\ ~r.s.blocks[r.ret.blk].dirty
              /\ ~r.s.blocks[r.ret.blk].uptodate

\* C28: the ref_count of every block in the table equals the number of
\* references obtained for it through alloc_block, find_get_block,
\* get_lru_block and get_dirty_block and not yet returned by put_block.
\* A Block enters the table with no reference outstanding, so the equality
\* is kept exactly when every whole operation leaves each table block with
\* the ref_count it had before (0 for a new Block), plus one if the call
\* returned that block, minus one if the call was a put_block of that block
\* that did not fail.
C28_RefCountCountsHolders ==
    LET Counted(r, released) ==
            \A o \in Range(r.s.cache) :
                r.s.blocks[o].ref
                = (IF o \in Range(cache) THEN blocks[o].ref ELSE 0)
                  + (IF r.ret = RetBlock(o) THEN 1 ELSE 0)
                  - (IF released = o /\ r.ret # Raised THEN 1 ELSE 0)
    IN /\ \A a \in AllocArgs : Counted(alloc_block(Cur, a.blk_id, a.new), NoObj)
       /\ \A blk_id \in BlkIds : Counted(find_get_block(Cur, blk_id), NoObj)
       /\ Counted(get_lru_block(Cur), NoObj)
       /\ Counted(get_dirty_block(Cur), NoObj)
       /\ \A o \in live : Counted(put_block(Cur, o), o)
       /\ \A o \in live : Counted(drop_block(Cur, o), NoObj)

\* C29: from a cache at capacity whose blocks are all idle with at least
\* one id in dirty_queue, while the callers do nothing but write-back steps
\* (get_dirty_block, clear_dirty, put_block): each step takes the head of
\* dirty_queue to the tail of lru_queue, after a step alloc_block of an id
\* that is not in the table returns a block, and dirty_queue eventually
\* becomes empty.
C29_WriteBackDrains ==
    /\ [](( /\ phase = "write_back"
            /\ \A o \in Range(cache) : blocks[o].ref = 0
            /\ dirty_queue # <<>> )
          => LET r == write_back_step(Cur)
             IN /\ r.ret = RetNone
                /\ r.s.dirty = Tail(dirty_queue)
                /\ r.s.lru = Append(lru_queue, Head(dirty_queue))
                /\ limit_reached(r.s)
                /\ \A blk_id \in BlkIds \ DOMAIN r.s.cache :
                       alloc_block(r.s, blk_id, NoObj).ret.kind = "Block")
    /\ (phase = "write_back") ~> (dirty_queue = <<>>)

\* C30: on an open FileDevice with T blocks, block_read(blk_id, blk_cnt)
\* returns data and block_write(blk_id, blk_cnt, buf) returns a
\* non-negative count if and only if 0 <= blk_id, 0 < blk_cnt and
\* blk_id + blk_cnt <= T; a request whose range reaches past the end of the
\* device is rejected (None, resp. -1) and leaves the file and its position
\* as they were.
C30_RangeCheck ==
    is_open(dev)
    => \A blk_id \in DevReq, blk_cnt \in DevReq, buf_len \in BufLens :
           LET in_range == 0 <= blk_id /\ 0 < blk_cnt /\ blk_id + blk_cnt <= dev.blk_cnt
               rd == block_read(dev, blk_id, blk_cnt)
               wr == block_write(dev, blk_id, blk_cnt, buf_len)
           IN /\ (rd.ret.kind = "bytes") <=> in_range
              /\ (wr.ret >= 0) <=> in_range
              /\ blk_id + blk_cnt > dev.blk_cnt
                 => /\ rd = [d |-> dev, ret |-> NoData]
                    /\ wr = [d |-> dev, ret |-> -1]

====
